---- MODULE Spec2Model ----
(***************************************************************************)
(* Weekly task manager (bun-react): the SQLite task/session store          *)
(* (src/src/database.ts, class TodoDatabase), the HTTP request handlers    *)
(* and the websocket hub (src/src/index.tsx, serve({...})), and the        *)
(* client read model (TodoApp in src/src/database.ts, lines 211-464).      *)
(*                                                                         *)
(* JavaScript values are encoded as follows.  Strings are TLA+ strings.    *)
(* undefined and null are the two sentinels Undef and Null.  A JavaScript  *)
(* boolean is "true" or "false"; the integers SQLite keeps for a BOOLEAN   *)
(* column are "1" and "0".  Task ids (UUIDs) are the integers 1, 2, ... in *)
(* the order crypto.randomUUID() hands them out; session ids likewise.     *)
(* ISO timestamps are the integer clock values they are taken from (their  *)
(* string order is the clock order).                                       *)
(***************************************************************************)
EXTENDS Integers, Sequences, FiniteSets, TLC

\* ------------------------------------------------------------------ bounds
MaxTasks == 2
MaxSessions == 1
MaxTime == 1
MaxLen == 2
MaxReqs == 3
MaxConns == 1
NumDays == 2
\* the pomodoro timer: callbacks of the one-second interval taken in one step,
\* calls in flight, and the requests and session rows of the server while it
\* serves the timer, under every user action (SpecTimer) and along the cycle
\* of sessions that run out (SpecCycle)
TickSeconds == 750
MaxStarts == 1
MaxCompletes == 2
MaxTimerReqs == 4
MaxTimerSessions == 2
MaxCycleReqs == 10
MaxCycleSessions == 5

VARIABLES
    tasks,      \* table tasks: a set of rows, one per id (PRIMARY KEY)
    sessions,   \* table pomodoro_sessions: a set of rows
    nextId,     \* how many task UUIDs crypto.randomUUID() has handed out
    nextSid,    \* how many session UUIDs it has handed out
    foreignKeys,\* PRAGMA foreign_keys of the connection (init never sets it)
    now,        \* the clock read by new Date()
    nreq,       \* number of API requests handled so far
    resp,       \* the HTTP response of the last handled request
    published,  \* the messages the last handled request gave to server.publish
    subs,       \* websocket hub: connection -> set of subscribed topics
    inbox,      \* connection -> messages sent to it, not yet handled by onmessage
    ws,         \* connection -> state of the client's WebSocket
    fetching,   \* connection -> the GET /api/tasks response on its way to the client
    local,      \* connection -> the client's read model (TodoApp state)
    timer,      \* PomodoroTimer: its state (useState)
    starts,     \* PomodoroTimer: the startSession calls waiting at their fetch
    completes   \* PomodoroTimer: the completeSession calls waiting at their fetch

timerVars == <<timer, starts, completes>>

vars == <<tasks, sessions, nextId, nextSid, foreignKeys, now, nreq, resp,
          published, subs, inbox, ws, fetching, local, timerVars>>

\* ------------------------------------------------------------ value domains
Undef == "<undefined>"
Null == "<null>"

AllDays == <<"monday", "tuesday", "wednesday", "thursday", "friday",
             "saturday", "sunday">>
DAYS == SubSeq(AllDays, 1, NumDays)
DaySet == {DAYS[i] : i \in 1..NumDays}
\* a day token outside the seven weekdays
OtherDay == "funday"
DayTokens == DaySet \cup {OtherDay}

TaskIds == 1..MaxTasks
SessionIds == 1..MaxSessions
Conns == 1..MaxConns
Times == 0..MaxTime
\* a JSON value that bun:sqlite cannot bind as a parameter (an object)
Unbindable == 0

TaskColumns == {"id", "title", "description", "day", "priority", "completed",
                "created_at", "updated_at"}

\* --------------------------------------------------------- generic helpers
Range(f) == {f[i] : i \in DOMAIN f}

SeqsUpTo(S, n) == UNION {[1..k -> S] : k \in 0..n}

\* all orderings of the finite set S
Perms(S) == {s \in [1..Cardinality(S) -> S] : \A i, j \in DOMAIN s : i # j => s[i] # s[j]}

\* the task fields that hold numbers in the model (the others hold strings)
NumberColumns == {"id", "priority", "created_at", "updated_at"}

\* Truthy with the bug "the empty string is truthy"
Truthy_EmptyString(v) == v \notin {Undef, Null, "false", "0"}

\* JS truthiness of the values of the model: undefined, null, "" and false are falsy
Truthy(v) == v \notin {Undef, Null, "", "false", "0"}

\* JSON.stringify of an object drops the keys whose value is undefined
ToJSON(obj) ==
    [k \in {x \in DOMAIN obj : x \in NumberColumns \/ obj[x] # Undef} |-> obj[k]]

\* bun:sqlite parameter binding: undefined and null become NULL, a boolean
\* becomes the integer 1 or 0; strings and numbers are stored as they are
Bind(col, v) ==
    IF col \in NumberColumns THEN v
    ELSE IF v = Undef THEN Null
    ELSE IF v = "true" THEN "1"
    ELSE IF v = "false" THEN "0"
    ELSE v

\* ------------------------------------------------- TodoDatabase (database.ts)
\* NewTask with the bug "updated_at from a second, later new Date()"
NewTask_TwoClocks(task, id, t) ==
    [k \in TaskColumns |->
        IF k = "id" THEN id
        ELSE IF k = "created_at" THEN t
        ELSE IF k = "updated_at" THEN t + 1
        ELSE task[k]]

\* the object createTask builds: {...task, id, created_at: now, updated_at: now}
NewTask(task, id, t) ==
    [k \in TaskColumns |->
        IF k = "id" THEN id
        ELSE IF k \in {"created_at", "updated_at"} THEN t
        ELSE task[k]]

\* the row the INSERT of createTask stores for that object
createTask(T, task, id, t) ==
    T \cup {[k \in TaskColumns |-> Bind(k, NewTask(task, id, t)[k])]}

\* SELECT * FROM tasks WHERE id = $id: the row as a one-element set, the
\* empty set for null (no row matches)
getTask(T, id) == {r \in T : r.id = id}

\* the parameter object of updateTask: the spread of the caller's keys comes
\* last, so a key "id" or "updated_at" of updates replaces $id / $updated_at
updateParams(id, updates, t) ==
    [k \in {"id", "updated_at"} \cup DOMAIN updates |->
        IF k \in DOMAIN updates THEN updates[k]
        ELSE IF k = "id" THEN id ELSE t]

\* db.query(...) of updateTask throws when a key of updates is no column
updateThrows(updates) ==
    DOMAIN updates # {} /\ ~(DOMAIN updates \subseteq TaskColumns)

\* UPDATE tasks SET <key = $key, ...>, updated_at = $updated_at WHERE id = $id
\* (no statement is run for an empty updates object)
updateTask(T, id, updates, t) ==
    IF DOMAIN updates = {} THEN T
    ELSE LET p == updateParams(id, updates, t) IN
         {IF r.id = p.id
            THEN [k \in TaskColumns |-> IF k \in DOMAIN p THEN Bind(k, p[k]) ELSE r[k]]
            ELSE r : r \in T}

\* deleteTask with the bug "DELETE FROM tasks" (no WHERE clause)
deleteTask_NoWhere(T, id) == IF getTask(T, id) = {} THEN T ELSE {}

\* DELETE FROM tasks WHERE id = $id
deleteTask(T, id) == {r \in T : r.id # id}

\* FOREIGN KEY (task_id) REFERENCES tasks (id) ON DELETE SET NULL: what the
\* DELETE of task id does to the sessions.  SQLite runs the action only on a
\* connection whose foreign_keys pragma is on
onDeleteSetNull(S, id, fk) ==
    IF fk THEN {IF s.task_id = <<id>> THEN [s EXCEPT !.task_id = <<>>] ELSE s : s \in S}
    ELSE S

\* reorderWrites with the bug "priority = index" (0-based)
RECURSIVE reorderWrites_ZeroBased(_, _, _)
reorderWrites_ZeroBased(T, ids, n) ==
    IF n = 0 THEN T
    ELSE {IF r.id = ids[n] THEN [r EXCEPT !.priority = n - 1] ELSE r :
            r \in reorderWrites_ZeroBased(T, ids, n - 1)}

\* the loop of reorderTasks after its first n statements:
\* UPDATE tasks SET priority = index + 1 WHERE id = ids[index]
RECURSIVE reorderWrites(_, _, _)
reorderWrites(T, ids, n) ==
    IF n = 0 THEN T
    ELSE {IF r.id = ids[n] THEN [r EXCEPT !.priority = n] ELSE r :
            r \in reorderWrites(T, ids, n - 1)}

\* position of the first statement whose parameter cannot be bound (it throws)
FirstThrow(ids) ==
    IF \E i \in DOMAIN ids : ids[i] = Unbindable
    THEN CHOOSE i \in DOMAIN ids :
            ids[i] = Unbindable /\ \A j \in 1..(i - 1) : ids[j] # Unbindable
    ELSE 0

\* reorderTasks with the bug "no transaction": the writes made before the
\* statement that throws stay
reorderTasks_NoTransaction(T, ids) ==
    IF FirstThrow(ids) = 0
    THEN [ok |-> TRUE, tasks |-> reorderWrites(T, ids, Len(ids))]
    ELSE [ok |-> FALSE, tasks |-> reorderWrites(T, ids, FirstThrow(ids) - 1)]

\* reorderTasks: db.transaction(...) commits the writes of the whole loop, or
\* rolls all of them back when a statement throws
reorderTasks(T, ids) ==
    IF FirstThrow(ids) = 0
    THEN [ok |-> TRUE, tasks |-> reorderWrites(T, ids, Len(ids))]
    ELSE [ok |-> FALSE, tasks |-> T]

\* Before with the bug "ORDER BY created_at ASC" (priority left out)
Before_NoPriority(a, b) == a.created_at <= b.created_at

\* ORDER BY priority ASC, created_at ASC
Before(a, b) ==
    \/ a.priority < b.priority
    \/ a.priority = b.priority /\ a.created_at <= b.created_at

\* getTasksByDay: every result the query may give (rows that tie on
\* (priority, created_at) come in an order SQL leaves open)
getTasksByDay(T, day) ==
    {s \in Perms({r \in T : r.day = day}) :
        \A i, j \in DOMAIN s : i < j => Before(s[i], s[j])}

\* rank of a day token in string order (ORDER BY day)
DayRank(d) ==
    CASE d = "friday" -> 1 [] d = "funday" -> 2 [] d = "monday" -> 3
      [] d = "saturday" -> 4 [] d = "sunday" -> 5 [] d = "thursday" -> 6
      [] d = "tuesday" -> 7 [] d = "wednesday" -> 8

\* getAllTasks: ORDER BY day, priority ASC, created_at ASC
getAllTasks(T) ==
    {s \in Perms(T) :
        \A i, j \in DOMAIN s : i < j =>
            \/ DayRank(s[i].day) < DayRank(s[j].day)
            \/ s[i].day = s[j].day /\ Before(s[i], s[j])}

\* the INSERT of createPomodoroSession throws (FOREIGN KEY constraint failed)
\* when foreign keys are enforced and task_id names no stored task
foreignKeyFails(T, session, fk) ==
    fk /\ session.task_id # <<>> /\ getTask(T, session.task_id[1]) = {}

\* INSERT of createPomodoroSession
createPomodoroSession(S, session, id) ==
    S \cup {[id |-> id, task_id |-> session.task_id, duration |-> session.duration,
             started_at |-> session.started_at, completed_at |-> session.completed_at,
             type |-> session.type]}

\* UPDATE pomodoro_sessions SET completed_at = $completed_at WHERE id = $id
completePomodoroSession(S, id, t) ==
    {IF s.id = id THEN [s EXCEPT !.completed_at = <<t>>] ELSE s : s \in S}

\* SELECT * FROM pomodoro_sessions WHERE id = $id (empty set for null)
getSession(S, id) == {s \in S : s.id = id}

\* ------------------------------------------------ websocket hub (index.tsx)
Topics == {"tasks", "pomodoro"}

\* websocket.open: ws.subscribe("tasks"); ws.subscribe("pomodoro")
wsOpen(sb, c) == [sb EXCEPT ![c] = sb[c] \cup {"tasks", "pomodoro"}]

\* wsClose with the bug "pomodoro is not unsubscribed"
wsClose_KeepsPomodoro(sb, c) == [sb EXCEPT ![c] = sb[c] \ {"tasks"}]

\* websocket.close: ws.unsubscribe("tasks"); ws.unsubscribe("pomodoro")
wsClose(sb, c) == [sb EXCEPT ![c] = sb[c] \ {"tasks", "pomodoro"}]

\* serverPublish with the bug "the message overtakes the ones already queued"
serverPublish_Prepend(sb, ib, topic, msg) ==
    [c \in Conns |-> IF topic \in sb[c] THEN <<msg>> \o ib[c] ELSE ib[c]]

\* server.publish(topic, msg): msg is sent to every connection subscribed to topic
serverPublish(sb, ib, topic, msg) ==
    [c \in Conns |-> IF topic \in sb[c] THEN Append(ib[c], msg) ELSE ib[c]]

\* what a handler hands to server.publish, and the inboxes after it
Publish(topic, msg) ==
    /\ published' = <<[topic |-> topic, msg |-> msg]>>
    /\ inbox' = serverPublish(subs, inbox, topic, msg)

NoPublish ==
    /\ published' = <<>>
    /\ UNCHANGED inbox

Respond(op, req, status, body) ==
    /\ resp' = [op |-> op, req |-> req, status |-> status, body |-> body]
    /\ nreq' = nreq + 1

Error(text) == [error |-> text]

\* ------------------------------------------------ request handlers (index.tsx)
\* POST /api/tasks
PostTask(body) ==
    /\ nreq < MaxReqs
    /\ IF ~Truthy(body.title) \/ ~Truthy(body.day)
       THEN /\ Respond("POST /api/tasks", body, 400, Error("Title and day are required"))
            /\ NoPublish
            /\ UNCHANGED <<tasks, nextId>>
       ELSE /\ nextId < MaxTasks
            /\ LET id == nextId + 1
                   input == [title |-> body.title, description |-> body.description,
                             day |-> body.day, priority |-> 1, completed |-> "false"]
                   task == ToJSON(NewTask(input, id, now))
               IN /\ tasks' = createTask(tasks, input, id, now)
                  /\ nextId' = id
                  /\ Publish("tasks", [type |-> "task_created", task |-> task])
                  /\ Respond("POST /api/tasks", body, 200, [task |-> task])
    /\ UNCHANGED <<timerVars, foreignKeys, sessions, nextSid, now, subs, ws, fetching, local>>

\* PutTask with the bug "publish before the null check": a 404 publishes too
PutTask_PublishFirst(id, body) ==
    /\ nreq < MaxReqs
    /\ IF updateThrows(body)
       THEN /\ Respond("PUT /api/tasks/:id", [id |-> id, body |-> body], 500, Error("Failed to update task"))
            /\ NoPublish
            /\ UNCHANGED tasks
       ELSE /\ tasks' = updateTask(tasks, id, body, now)
            /\ IF getTask(tasks', id) = {}
               THEN /\ Publish("tasks", [type |-> "task_updated"])
                    /\ Respond("PUT /api/tasks/:id", [id |-> id, body |-> body], 404, Error("Task not found"))
               ELSE LET task == CHOOSE r \in getTask(tasks', id) : TRUE
                    IN /\ Publish("tasks", [type |-> "task_updated", task |-> task])
                       /\ Respond("PUT /api/tasks/:id", [id |-> id, body |-> body], 200, [task |-> task])
    /\ UNCHANGED <<timerVars, foreignKeys, sessions, nextId, nextSid, now, subs, ws, fetching, local>>

\* PUT /api/tasks/:id
PutTask(id, body) ==
    /\ nreq < MaxReqs
    /\ IF updateThrows(body)
       THEN /\ Respond("PUT /api/tasks/:id", [id |-> id, body |-> body], 500, Error("Failed to update task"))
            /\ NoPublish
            /\ UNCHANGED tasks
       ELSE /\ tasks' = updateTask(tasks, id, body, now)
            /\ IF getTask(tasks', id) = {}
               THEN /\ Respond("PUT /api/tasks/:id", [id |-> id, body |-> body], 404, Error("Task not found"))
                    /\ NoPublish
               ELSE LET task == CHOOSE r \in getTask(tasks', id) : TRUE
                    IN /\ Publish("tasks", [type |-> "task_updated", task |-> task])
                       /\ Respond("PUT /api/tasks/:id", [id |-> id, body |-> body], 200, [task |-> task])
    /\ UNCHANGED <<timerVars, foreignKeys, sessions, nextId, nextSid, now, subs, ws, fetching, local>>

\* DeleteTask with the bug "a publish that reaches no subscriber (it returns
\* 0) is treated as an error": the row is deleted and the response is 500
DeleteTask_FailsUndelivered(id) ==
    /\ nreq < MaxReqs
    /\ tasks' = deleteTask(tasks, id)
    /\ sessions' = (IF tasks' = tasks THEN sessions
                    ELSE onDeleteSetNull(sessions, id, foreignKeys))
    /\ IF tasks' = tasks
       THEN /\ Respond("DELETE /api/tasks/:id", [id |-> id], 404, Error("Task not found"))
            /\ NoPublish
       ELSE /\ Publish("tasks", [type |-> "task_deleted", id |-> id])
            /\ IF \E c \in Conns : "tasks" \in subs[c]
               THEN Respond("DELETE /api/tasks/:id", [id |-> id], 200, [success |-> TRUE])
               ELSE Respond("DELETE /api/tasks/:id", [id |-> id], 500, Error("Failed to delete task"))
    /\ UNCHANGED <<timerVars, foreignKeys, nextId, nextSid, now, subs, ws, fetching, local>>

\* DELETE /api/tasks/:id
DeleteTask(id) ==
    /\ nreq < MaxReqs
    /\ tasks' = deleteTask(tasks, id)
    /\ sessions' = (IF tasks' = tasks THEN sessions
                    ELSE onDeleteSetNull(sessions, id, foreignKeys))
    /\ IF tasks' = tasks
       THEN /\ Respond("DELETE /api/tasks/:id", [id |-> id], 404, Error("Task not found"))
            /\ NoPublish
       ELSE /\ Publish("tasks", [type |-> "task_deleted", id |-> id])
            /\ Respond("DELETE /api/tasks/:id", [id |-> id], 200, [success |-> TRUE])
    /\ UNCHANGED <<timerVars, foreignKeys, nextId, nextSid, now, subs, ws, fetching, local>>

\* a taskIds value of the body that is not an array
NotArray == <<-1>>

\* POST /api/tasks/reorder
ReorderTasks(day, taskIds) ==
    /\ nreq < MaxReqs
    /\ IF ~Truthy(day) \/ taskIds = NotArray
       THEN /\ Respond("POST /api/tasks/reorder", [day |-> day, taskIds |-> taskIds], 400, Error("Day and taskIds array are required"))
            /\ NoPublish
            /\ UNCHANGED tasks
       ELSE LET r == reorderTasks(tasks, taskIds) IN
            /\ tasks' = r.tasks
            /\ IF r.ok
               THEN /\ Publish("tasks", [type |-> "tasks_reordered", day |-> day,
                                         taskIds |-> taskIds])
                    /\ Respond("POST /api/tasks/reorder", [day |-> day, taskIds |-> taskIds], 200, [success |-> TRUE])
               ELSE /\ Respond("POST /api/tasks/reorder", [day |-> day, taskIds |-> taskIds], 500, Error("Failed to reorder tasks"))
                    /\ NoPublish
    /\ UNCHANGED <<timerVars, foreignKeys, sessions, nextId, nextSid, now, subs, ws, fetching, local>>

\* GET /api/tasks?day=D
GetTasks(day) ==
    /\ nreq < MaxReqs
    /\ \E s \in (IF Truthy(day) THEN getTasksByDay(tasks, day) ELSE getAllTasks(tasks)) :
          Respond("GET /api/tasks", [day |-> day], 200, [tasks |-> s])
    /\ NoPublish
    /\ UNCHANGED <<timerVars, foreignKeys, tasks, sessions, nextId, nextSid, now, subs, ws, fetching, local>>

\* POST /api/pomodoro/sessions, for a server that handles at most maxReqs
\* requests and stores at most maxSessions sessions
PostSessionWithin(body, maxReqs, maxSessions) ==
    /\ nreq < maxReqs
    /\ IF body.duration = 0 \/ ~Truthy(body.type)
       THEN /\ Respond("POST /api/pomodoro/sessions", body, 400, Error("Duration and type are required"))
            /\ NoPublish
            /\ UNCHANGED <<sessions, nextSid>>
       ELSE /\ nextSid < maxSessions
            /\ LET id == nextSid + 1
                   input == [task_id |-> body.task_id, duration |-> body.duration,
                             started_at |-> now, completed_at |-> <<>>, type |-> body.type]
                   session == CHOOSE x \in getSession(createPomodoroSession({}, input, id), id) : TRUE
               IN /\ nextSid' = id
                  /\ IF foreignKeyFails(tasks, input, foreignKeys)
                     THEN /\ Respond("POST /api/pomodoro/sessions", body, 500, Error("Failed to create session"))
                          /\ NoPublish
                          /\ UNCHANGED sessions
                     ELSE /\ sessions' = createPomodoroSession(sessions, input, id)
                          /\ Publish("pomodoro", [type |-> "session_started", session |-> session])
                          /\ Respond("POST /api/pomodoro/sessions", body, 200, [session |-> session])
    /\ UNCHANGED <<foreignKeys, tasks, nextId, now, subs, ws, fetching, local>>

\* POST /api/pomodoro/sessions
PostSession(body) ==
    /\ PostSessionWithin(body, MaxReqs, MaxSessions)
    /\ UNCHANGED timerVars

\* POST /api/pomodoro/sessions when the INSERT throws (the store cannot be
\* written): the catch block answers 500
PostSessionStoreError(body, maxReqs) ==
    /\ nreq < maxReqs
    /\ Respond("POST /api/pomodoro/sessions", body, 500, Error("Failed to create session"))
    /\ NoPublish
    /\ UNCHANGED <<foreignKeys, tasks, sessions, nextId, nextSid, now, subs, ws, fetching, local>>

\* POST /api/pomodoro/sessions/:id/complete, for a server that handles at
\* most maxReqs requests
CompleteSessionWithin(id, maxReqs) ==
    /\ nreq < maxReqs
    /\ sessions' = completePomodoroSession(sessions, id, now)
    /\ IF getSession(sessions', id) = {}
       THEN /\ Respond("POST /api/pomodoro/sessions/:id/complete", [id |-> id], 404, Error("Session not found"))
            /\ NoPublish
       ELSE LET session == CHOOSE x \in getSession(sessions', id) : TRUE
            IN /\ Publish("pomodoro", [type |-> "session_completed", session |-> session])
               /\ Respond("POST /api/pomodoro/sessions/:id/complete", [id |-> id], 200, [session |-> session])
    /\ UNCHANGED <<foreignKeys, tasks, nextId, nextSid, now, subs, ws, fetching, local>>

\* POST /api/pomodoro/sessions/:id/complete
CompleteSession(id) ==
    /\ CompleteSessionWithin(id, MaxReqs)
    /\ UNCHANGED timerVars

\* websocket.open(ws)
WsOpen(c) ==
    /\ ws[c] = "connecting"
    /\ ws' = [ws EXCEPT ![c] = "open"]
    /\ subs' = wsOpen(subs, c)
    /\ UNCHANGED <<timerVars, foreignKeys, tasks, sessions, nextId, nextSid, now, nreq, resp, published,
                   inbox, fetching, local>>

\* websocket.close(ws); TodoApp never opens a second socket
WsClose(c) ==
    /\ ws[c] = "open"
    /\ ws' = [ws EXCEPT ![c] = "closed"]
    /\ subs' = wsClose(subs, c)
    /\ UNCHANGED <<timerVars, foreignKeys, tasks, sessions, nextId, nextSid, now, nreq, resp, published,
                   inbox, fetching, local>>

\* new Date() reads a later time
Tick ==
    /\ now < MaxTime
    /\ now' = now + 1
    /\ UNCHANGED <<timerVars, foreignKeys, tasks, sessions, nextId, nextSid, nreq, resp, published,
                   subs, inbox, ws, fetching, local>>

\* ------------------------------------------------- TodoApp (client read model)
\* message.taskIds.map(id => prev[day]?.find(task => task.id === id)).filter(Boolean)
RECURSIVE PickByIds(_, _)
PickByIds(list, ids) ==
    IF ids = <<>> THEN <<>>
    ELSE LET found == {i \in DOMAIN list : list[i].id = Head(ids)}
             first == CHOOSE i \in found : \A j \in found : i <= j
         IN (IF found = {} THEN <<>> ELSE <<list[first]>>) \o PickByIds(list, Tail(ids))

\* list.map(task => task.id === t.id ? t : task)
ReplaceById(list, t) == [i \in DOMAIN list |-> IF list[i].id = t.id THEN t ELSE list[i]]

\* list.filter(task => task.id !== id)
RemoveById(list, id) == SelectSeq(list, LAMBDA x : x.id # id)

\* handleWebSocketMessage: prev maps a day to its list (no entry reads as [])
handleWebSocketMessage(prev, message) ==
    CASE message.type = "task_created" ->
           [prev EXCEPT ![message.task.day] = Append(@, message.task)]
      [] message.type = "task_updated" ->
           [d \in DOMAIN prev |->
              IF d \in DaySet THEN ReplaceById(prev[d], message.task) ELSE prev[d]]
      [] message.type = "task_deleted" ->
           [d \in DOMAIN prev |->
              IF d \in DaySet THEN RemoveById(prev[d], message.id) ELSE prev[d]]
      [] message.type = "tasks_reordered" ->
           [prev EXCEPT ![message.day] = PickByIds(@, message.taskIds)]
      [] OTHER -> prev

\* fetchAllTasks, after the response: the tasks grouped by the days of DAYS
groupByDay(list) ==
    [d \in DayTokens |-> IF d \in DaySet THEN SelectSeq(list, LAMBDA x : x.day = d) ELSE <<>>]

\* fetchAllTasks: GET /api/tasks is answered
ClientFetch(c) ==
    /\ fetching[c] = <<>>
    /\ \E s \in getAllTasks(tasks) : fetching' = [fetching EXCEPT ![c] = <<s>>]
    /\ UNCHANGED <<timerVars, foreignKeys, tasks, sessions, nextId, nextSid, now, nreq, resp, published,
                   subs, inbox, ws, local>>

\* fetchAllTasks: the response arrives, setTasks(tasksByDay); setLoading(false)
ClientFetchDone(c) ==
    /\ fetching[c] # <<>>
    /\ local' = [local EXCEPT ![c] = [loading |-> FALSE, tasks |-> groupByDay(fetching[c][1])]]
    /\ fetching' = [fetching EXCEPT ![c] = <<>>]
    /\ UNCHANGED <<timerVars, foreignKeys, tasks, sessions, nextId, nextSid, now, nreq, resp, published,
                   subs, inbox, ws>>

\* websocket.onmessage
ClientMessage(c) ==
    /\ inbox[c] # <<>>
    /\ local' = [local EXCEPT ![c].tasks = handleWebSocketMessage(@, Head(inbox[c]))]
    /\ inbox' = [inbox EXCEPT ![c] = Tail(@)]
    /\ UNCHANGED <<timerVars, foreignKeys, tasks, sessions, nextId, nextSid, now, nreq, resp, published,
                   subs, ws, fetching>>

\* ------------------------------------------- PomodoroTimer (PomodoroTimer.tsx)
TIMER_DURATIONS == [work |-> 25 * 60, short_break |-> 5 * 60, long_break |-> 15 * 60]

TimerTypes == {"work", "short_break", "long_break"}

\* s without its i-th element
RemoveAt(s, i) == SubSeq(s, 1, i - 1) \o SubSeq(s, i + 1, Len(s))

\* completeSession: newSessionCount
newSessionCount(st) ==
    IF st.currentType = "work" THEN st.sessionCount + 1 ELSE st.sessionCount

\* nextType with the bug "long break when the count before the session is a
\* multiple of 4"
nextType_CountBefore(st) ==
    IF st.currentType = "work"
    THEN (IF st.sessionCount % 4 = 0 THEN "long_break" ELSE "short_break")
    ELSE "work"

\* completeSession: nextType
nextType(st) ==
    IF st.currentType = "work"
    THEN (IF newSessionCount(st) % 4 = 0 THEN "long_break" ELSE "short_break")
    ELSE "work"

\* completed with the bug "the finished session stays the current one"
completed_KeepsSession(st) ==
    [timeLeft |-> TIMER_DURATIONS[nextType(st)], isRunning |-> FALSE,
     currentType |-> nextType(st), sessionCount |-> newSessionCount(st),
     currentSessionId |-> st.currentSessionId]

\* completeSession: the state it sets, from the state st of the render that
\* called it
completed(st) ==
    [timeLeft |-> TIMER_DURATIONS[nextType(st)], isRunning |-> FALSE,
     currentType |-> nextType(st), sessionCount |-> newSessionCount(st),
     currentSessionId |-> <<>>]

\* the effect on [state.isRunning, state.timeLeft], run after a render that
\* changed one of the two: it keeps the interval going while the timer runs
\* with time left, and calls completeSession() when no time is left and a
\* session is current.  completeSession sends its request and waits at the
\* fetch with the state of that render.  cs are the waiting calls.
useEffect(old, new, cs) ==
    IF /\ <<old.isRunning, old.timeLeft>> # <<new.isRunning, new.timeLeft>>
       /\ ~(new.isRunning /\ new.timeLeft > 0)
       /\ new.timeLeft = 0
       /\ new.currentSessionId # <<>>
    THEN Append(cs, [state |-> new, stage |-> "sent"])
    ELSE cs

\* setState(new), the render and the effect after it
SetState(new, cs) ==
    /\ timer' = new
    /\ completes' = useEffect(timer, new, cs)
    /\ Len(completes') <= MaxCompletes

\* the user clicks Start (shown while the timer does not run, disabled at
\* 00:00): startSession sends POST /api/pomodoro/sessions and waits
startSession ==
    /\ ~timer.isRunning
    /\ timer.timeLeft # 0
    /\ Len(starts) < MaxStarts
    /\ starts' = Append(starts,
          [body |-> [task_id |-> <<>>, duration |-> TIMER_DURATIONS[timer.currentType],
                     type |-> timer.currentType],
           stage |-> "sent", status |-> 0, id |-> 0])
    /\ UNCHANGED <<tasks, sessions, nextId, nextSid, foreignKeys, now, nreq, resp,
                   published, subs, inbox, ws, fetching, local, timer, completes>>

\* the server handles the request of the i-th waiting startSession call
ServeStart(i, maxReqs, maxSessions) ==
    /\ starts[i].stage = "sent"
    /\ PostSessionWithin(starts[i].body, maxReqs, maxSessions)
    /\ starts' = [starts EXCEPT ![i] = [@ EXCEPT !.stage = "answered",
                                                 !.status = resp'.status,
                                                 !.id = resp'.body.session.id]]
    /\ UNCHANGED <<timer, completes>>

\* the server handles that request and its store fails
ServeStartStoreError(i, maxReqs) ==
    /\ starts[i].stage = "sent"
    /\ PostSessionStoreError(starts[i].body, maxReqs)
    /\ starts' = [starts EXCEPT ![i] = [@ EXCEPT !.stage = "answered",
                                                 !.status = resp'.status]]
    /\ UNCHANGED <<timer, completes>>

\* startSession after its fetch, the response has arrived: with response.ok
\* the timer runs with the id of the stored session; otherwise nothing is set
startSessionResponse(i) ==
    /\ starts[i].stage = "answered"
    /\ starts' = RemoveAt(starts, i)
    /\ IF starts[i].status = 200
       THEN SetState([timer EXCEPT !.isRunning = TRUE,
                                   !.currentSessionId = <<starts[i].id>>], completes)
       ELSE UNCHANGED <<timer, completes>>
    /\ UNCHANGED <<tasks, sessions, nextId, nextSid, foreignKeys, now, nreq, resp,
                   published, subs, inbox, ws, fetching, local>>

\* startSession after its fetch, the fetch has thrown (the request or its
\* response was lost): the catch block starts the timer locally
startSessionCatch(i) ==
    /\ starts' = RemoveAt(starts, i)
    /\ SetState([timer EXCEPT !.isRunning = TRUE], completes)
    /\ UNCHANGED <<tasks, sessions, nextId, nextSid, foreignKeys, now, nreq, resp,
                   published, subs, inbox, ws, fetching, local>>

\* the callback of setInterval (TickSeconds of its calls in one step):
\* timeLeft: Math.max(0, prev.timeLeft - 1)
IntervalTick ==
    /\ timer.isRunning
    /\ timer.timeLeft > 0
    /\ SetState([timer EXCEPT !.timeLeft =
                    IF @ > TickSeconds THEN @ - TickSeconds ELSE 0], completes)
    /\ UNCHANGED <<tasks, sessions, nextId, nextSid, foreignKeys, now, nreq, resp,
                   published, subs, inbox, ws, fetching, local, starts>>

\* the server handles the request of the j-th waiting completeSession call
ServeComplete(j, maxReqs) ==
    /\ completes[j].stage = "sent"
    /\ CompleteSessionWithin(completes[j].state.currentSessionId[1], maxReqs)
    /\ completes' = [completes EXCEPT ![j].stage = "answered"]
    /\ UNCHANGED <<timer, starts>>

\* completeSession after its fetch, answered (with any status) or thrown and
\* caught: setState of the next type, from the state of the render that
\* called completeSession
completeSession(j) ==
    /\ SetState(completed(completes[j].state), RemoveAt(completes, j))
    /\ UNCHANGED <<tasks, sessions, nextId, nextSid, foreignKeys, now, nreq, resp,
                   published, subs, inbox, ws, fetching, local, starts>>

\* the user clicks Pause (shown while the timer runs)
pauseTimer ==
    /\ timer.isRunning
    /\ SetState([timer EXCEPT !.isRunning = FALSE], completes)
    /\ UNCHANGED <<tasks, sessions, nextId, nextSid, foreignKeys, now, nreq, resp,
                   published, subs, inbox, ws, fetching, local, starts>>

\* the user clicks Reset (disabled while the timer runs)
resetTimer ==
    /\ ~timer.isRunning
    /\ SetState([timer EXCEPT !.timeLeft = TIMER_DURATIONS[timer.currentType],
                              !.isRunning = FALSE, !.currentSessionId = <<>>], completes)
    /\ UNCHANGED <<tasks, sessions, nextId, nextSid, foreignKeys, now, nreq, resp,
                   published, subs, inbox, ws, fetching, local, starts>>

\* the user clicks a type button (it returns at once while the timer runs)
switchType(type) ==
    /\ ~timer.isRunning
    /\ SetState([timer EXCEPT !.timeLeft = TIMER_DURATIONS[type], !.isRunning = FALSE,
                              !.currentType = type, !.currentSessionId = <<>>], completes)
    /\ UNCHANGED <<tasks, sessions, nextId, nextSid, foreignKeys, now, nreq, resp,
                   published, subs, inbox, ws, fetching, local, starts>>

\* ------------------------------------------------------------ specification
PostBodies ==
    [title : {"a", "", Undef}, description : {"d", Undef}, day : DayTokens \cup {Undef}]

PutValues(k) ==
    CASE k = "title" -> {"b", ""}
      [] k = "description" -> {"e", Null}
      [] k = "day" -> DayTokens
      [] k = "priority" -> 1..MaxLen
      [] k = "completed" -> {"true", "false"}
      [] k = "created_at" -> Times
      [] k = "updated_at" -> Times
      [] k = "id" -> TaskIds
      [] OTHER -> {"x"}

\* the key sets of the PUT bodies: no key, one key (a column or not), and
\* two keys together
PutKeySets ==
    {{}} \cup {{k} : k \in TaskColumns \cup {"color"}}
         \cup {{"title", "completed"}, {"id", "title"}}

RECURSIVE Records(_)
Records(keys) ==
    IF keys = {} THEN {<<>>}
    ELSE LET k == CHOOSE x \in keys : TRUE IN
         {[j \in DOMAIN r \cup {k} |-> IF j = k THEN v ELSE r[j]] :
            r \in Records(keys \ {k}), v \in PutValues(k)}

PutBodies == UNION {Records(ks) : ks \in PutKeySets}

IdLists == SeqsUpTo(TaskIds \cup {Unbindable}, MaxLen) \cup {NotArray}

SessionBodies ==
    [task_id : {<<>>} \cup {<<i>> : i \in TaskIds}, duration : {0, 25 * 60},
     type : {"work", Undef}]

Init ==
    /\ tasks = {}
    /\ sessions = {}
    /\ nextId = 0
    /\ nextSid = 0
    /\ foreignKeys \in BOOLEAN
    /\ now = 0
    /\ nreq = 0
    /\ resp = [op |-> "", req |-> <<>>, status |-> 0, body |-> Error("")]
    /\ published = <<>>
    /\ subs = [c \in Conns |-> {}]
    /\ inbox = [c \in Conns |-> <<>>]
    /\ ws = [c \in Conns |-> "connecting"]
    /\ fetching = [c \in Conns |-> <<>>]
    /\ local = [c \in Conns |-> [loading |-> TRUE, tasks |-> [d \in DayTokens |-> <<>>]]]
    /\ timer = [timeLeft |-> TIMER_DURATIONS["work"], isRunning |-> FALSE,
                currentType |-> "work", sessionCount |-> 0, currentSessionId |-> <<>>]
    /\ starts = <<>>
    /\ completes = <<>>

\* the server process: every request of the API, the websocket hub, the clock
Next ==
    \/ \E body \in PostBodies : PostTask(body)
    \/ \E id \in TaskIds, body \in PutBodies : PutTask(id, body)
    \/ \E id \in TaskIds : DeleteTask(id)
    \/ \E day \in DaySet \cup {Undef}, taskIds \in IdLists : ReorderTasks(day, taskIds)
    \/ \E day \in DaySet \cup {Undef} : GetTasks(day)
    \/ \E body \in SessionBodies : PostSession(body)
    \/ \E id \in SessionIds : CompleteSession(id)
    \/ \E c \in Conns : WsOpen(c)
    \/ \E c \in Conns : WsClose(c)
    \/ Tick

Spec == Init /\ [][Next]_vars

\* the server together with the TodoApp clients: the task mutations the
\* clients send (addTask, updateTask, deleteTask, reorderTasks), their
\* fetches and the messages they handle
SyncPostBodies == [title : {"a"}, description : {"d"}, day : DaySet]

SyncPutBodies == UNION {Records({k}) : k \in {"title", "day", "priority", "completed"}}

SyncIdLists == SeqsUpTo(TaskIds, MaxLen)

NextSync ==
    \/ \E body \in SyncPostBodies : PostTask(body)
    \/ \E id \in TaskIds, body \in SyncPutBodies : PutTask(id, body)
    \/ \E id \in TaskIds : DeleteTask(id)
    \/ \E day \in DaySet, taskIds \in SyncIdLists : ReorderTasks(day, taskIds)
    \/ \E c \in Conns : WsOpen(c)
    \/ \E c \in Conns : WsClose(c)
    \/ \E c \in Conns : ClientFetch(c)
    \/ \E c \in Conns : ClientFetchDone(c)
    \/ \E c \in Conns : ClientMessage(c)
    \/ Tick

SpecSync == Init /\ [][NextSync]_vars

\* the pomodoro timer of one client and the server that answers it
NextTimer ==
    \/ startSession
    \/ \E i \in 1..MaxStarts : i <= Len(starts) /\ ServeStart(i, MaxTimerReqs, MaxTimerSessions)
    \/ \E i \in 1..MaxStarts : i <= Len(starts) /\ ServeStartStoreError(i, MaxTimerReqs)
    \/ \E i \in 1..MaxStarts : i <= Len(starts) /\ startSessionResponse(i)
    \/ \E i \in 1..MaxStarts : i <= Len(starts) /\ startSessionCatch(i)
    \/ IntervalTick
    \/ \E j \in 1..MaxCompletes : j <= Len(completes) /\ ServeComplete(j, MaxTimerReqs)
    \/ \E j \in 1..MaxCompletes : j <= Len(completes) /\ completeSession(j)
    \/ pauseTimer
    \/ resetTimer
    \/ \E type \in TimerTypes : switchType(type)

SpecTimer == Init /\ [][NextTimer]_vars

\* the timer under the actions its liveness rests on: the interval fires
\* while it is set, and a call waiting at its fetch goes on (the fetch is
\* answered or throws); nothing makes the user click
SpecTimerFair ==
    /\ SpecTimer
    /\ WF_vars(IntervalTick)
    /\ WF_vars(\E i \in 1..MaxStarts : i <= Len(starts) /\ startSessionResponse(i))
    /\ WF_vars(\E j \in 1..MaxCompletes : j <= Len(completes) /\ completeSession(j))

\* the cycle of the timer: sessions that are started, stored, run out and
\* complete, the user choosing the type of the next one
NextCycle ==
    \/ startSession
    \/ \E i \in 1..MaxStarts : i <= Len(starts) /\ ServeStart(i, MaxCycleReqs, MaxCycleSessions)
    \/ \E i \in 1..MaxStarts : i <= Len(starts) /\ startSessionResponse(i)
    \/ IntervalTick
    \/ \E j \in 1..MaxCompletes : j <= Len(completes) /\ ServeComplete(j, MaxCycleReqs)
    \/ \E j \in 1..MaxCompletes : j <= Len(completes) /\ completeSession(j)
    \/ \E type \in TimerTypes : switchType(type)

SpecCycle == Init /\ [][NextCycle]_vars

\* ================================================================== claims
IdsOf(list) == [i \in DOMAIN list |-> list[i].id]

Distinct(ids) == \A i, j \in DOMAIN ids : i # j => ids[i] # ids[j]

\* the last position at which id occurs in ids
LastPos(ids, id) == CHOOSE i \in DOMAIN ids : ids[i] = id /\ \A j \in DOMAIN ids : ids[j] = id => j <= i

\* the ids of the stored tasks
IdsOfRows == {r.id : r \in tasks}

\* the last handled request was a reorder that succeeded
Reordered == resp.op = "POST /api/tasks/reorder" /\ resp.status = 200

\* the step handles a request / a reorder request
RequestStep == nreq' = nreq + 1
ReorderStep == RequestStep /\ resp'.op = "POST /api/tasks/reorder"

\* C1: after a reorder of a day with a list of distinct ids that all belong
\* to that day, every result of listByDay(day) has the listed tasks in the
\* order of the list.
C1_ReorderThenListInOrder ==
    (/\ Reordered
     /\ Distinct(resp.req.taskIds)
     /\ \A i \in DOMAIN resp.req.taskIds :
           \E r \in tasks : r.id = resp.req.taskIds[i] /\ r.day = resp.req.day)
    => \A s \in getTasksByDay(tasks, resp.req.day) :
          SelectSeq(IdsOf(s), LAMBDA x : x \in Range(resp.req.taskIds)) = resp.req.taskIds

\* a reorder put the task created second before the task created first, and
\* the listing of the day follows it
C1_Witness ==
    /\ Reordered
    /\ resp.req.taskIds = <<2, 1>>
    /\ \A i \in {1, 2} : \E r \in tasks : r.id = i /\ r.day = resp.req.day
    /\ \E r \in tasks : r.id = 1 /\ r.created_at = 0
    /\ \E r \in tasks : r.id = 2 /\ r.created_at = 1
    /\ \A s \in getTasksByDay(tasks, resp.req.day) : IdsOf(s) = <<2, 1>>

\* C2 as stated: a successful reorder sets the priority of ids[i] to i+1 for
\* every position i (counted from 0), and leaves the priority of every task
\* not in the list unchanged.
C2_Original ==
    [][(ReorderStep /\ resp'.status = 200) =>
        LET ids == resp'.req.taskIds IN
        /\ \A i \in DOMAIN ids : \A r \in tasks' : r.id = ids[i] => r.priority = i
        /\ \A r \in tasks : r.id \notin Range(ids) => r \in tasks']_vars

\* C2 amended: a successful reorder sets the priority of every listed task to
\* the 1-based position of the last occurrence of its id in the list, changes
\* nothing else of it, and leaves every task not in the list unchanged.
C2_ReorderSetsPriorities ==
    [][(ReorderStep /\ resp'.status = 200) =>
        LET ids == resp'.req.taskIds IN
        tasks' = {IF r.id \in Range(ids) THEN [r EXCEPT !.priority = LastPos(ids, r.id)]
                  ELSE r : r \in tasks}]_vars

\* a reorder of two tasks gave them the priorities 1 and 2 in list order
C2_Witness ==
    /\ Reordered
    /\ resp.req.taskIds = <<2, 1>>
    /\ \E r \in tasks : r.id = 2 /\ r.priority = 1
    /\ \E r \in tasks : r.id = 1 /\ r.priority = 2

\* C3: a reorder request is one step of the store: after it either every
\* write of the list is applied (the request succeeds) or, when a statement
\* of the transaction throws, no row is changed; no state read by another
\* request holds only some of the writes.
C3_ReorderAtomic ==
    [][ReorderStep =>
        \/ /\ resp'.status = 200
           /\ \A r \in tasks' : r.id \in Range(resp'.req.taskIds) =>
                 r.priority = LastPos(resp'.req.taskIds, r.id)
        \/ /\ resp'.status # 200
           /\ tasks' = tasks]_vars

\* a reorder whose second parameter cannot be bound failed after its first
\* write, and the task of the first write kept a priority other than 1
C3_Witness ==
    /\ resp.op = "POST /api/tasks/reorder"
    /\ resp.status = 500
    /\ resp.req.taskIds = <<1, Unbindable>>
    /\ \E r \in tasks : r.id = 1 /\ r.priority = 2

\* the event a mutation of the API publishes: its topic and its type
MutationOps ==
    {"POST /api/tasks", "PUT /api/tasks/:id", "DELETE /api/tasks/:id",
     "POST /api/tasks/reorder", "POST /api/pomodoro/sessions",
     "POST /api/pomodoro/sessions/:id/complete"}

TopicOf(op) ==
    IF op \in {"POST /api/pomodoro/sessions", "POST /api/pomodoro/sessions/:id/complete"}
    THEN "pomodoro" ELSE "tasks"

TypeOf(op) ==
    CASE op = "POST /api/tasks" -> "task_created"
      [] op = "PUT /api/tasks/:id" -> "task_updated"
      [] op = "DELETE /api/tasks/:id" -> "task_deleted"
      [] op = "POST /api/tasks/reorder" -> "tasks_reordered"
      [] op = "POST /api/pomodoro/sessions" -> "session_started"
      [] op = "POST /api/pomodoro/sessions/:id/complete" -> "session_completed"

\* a message without its type discriminator
Payload(msg) == [k \in DOMAIN msg \ {"type"} |-> msg[k]]

OneEvent ==
    /\ Len(published) = 1
    /\ published[1].topic = TopicOf(resp.op)
    /\ published[1].msg.type = TypeOf(resp.op)

\* C4 as stated: every successful mutation publishes exactly one event of the
\* matching type on the matching topic, carrying the same payload as the HTTP
\* response; a request answered with 400 or 404 publishes no event.
C4_Original ==
    resp.op \in MutationOps =>
        /\ resp.status = 200 => (OneEvent /\ Payload(published[1].msg) = resp.body)
        /\ resp.status \in {400, 404} => published = <<>>

\* C4 amended: every successful mutation publishes, after the store mutation,
\* exactly one event of the matching type on the matching topic.  For task
\* create and update and for session start and complete the event carries
\* the task or session of the HTTP response; for delete it carries the id
\* and for reorder the day and taskIds of the request, while the response is
\* {success: true}.  A request answered with 400 or 404 publishes no event.
C4_PublishOnSuccess ==
    resp.op \in MutationOps =>
        /\ resp.status = 200 =>
            /\ OneEvent
            /\ LET msg == published[1].msg IN
               CASE resp.op = "POST /api/tasks" ->
                      Payload(msg) = resp.body /\ getTask(tasks, msg.task.id) # {}
                 [] resp.op = "PUT /api/tasks/:id" ->
                      Payload(msg) = resp.body /\ getTask(tasks, resp.req.id) = {msg.task}
                 [] resp.op = "DELETE /api/tasks/:id" ->
                      /\ Payload(msg) = [id |-> resp.req.id]
                      /\ resp.body = [success |-> TRUE]
                      /\ getTask(tasks, resp.req.id) = {}
                 [] resp.op = "POST /api/tasks/reorder" ->
                      /\ Payload(msg) = [day |-> resp.req.day, taskIds |-> resp.req.taskIds]
                      /\ resp.body = [success |-> TRUE]
                 [] OTHER ->
                      Payload(msg) = resp.body /\ msg.session \in sessions
        /\ resp.status \in {400, 404} => published = <<>>

\* a delete succeeded and published task_deleted with the id
C4_Witness ==
    /\ resp.op = "DELETE /api/tasks/:id"
    /\ resp.status = 200
    /\ published = <<[topic |-> "tasks", msg |-> [type |-> "task_deleted", id |-> resp.req.id]]>>

\* C5: a published event is appended to the inbox of every connection that
\* is open at publish time and of no other; a connection is subscribed to
\* tasks and pomodoro when it opens and to nothing once it is closed; opening
\* or closing a connection changes no task and no session.
C5_Delivery ==
    [][/\ (RequestStep /\ published' # <<>>) =>
            \A c \in Conns :
                inbox'[c] = IF ws[c] = "open" THEN Append(inbox[c], published'[1].msg)
                            ELSE inbox[c]
       /\ (RequestStep /\ published' = <<>>) => inbox' = inbox
       /\ \A c \in Conns :
            /\ ws'[c] = "open" => subs'[c] = Topics
            /\ ws'[c] # "open" => subs'[c] = {}
            /\ ws'[c] # ws[c] => (tasks' = tasks /\ sessions' = sessions)]_vars

\* a connection received an event while open, was closed, and did not
\* receive the event published after the close
C5_Witness ==
    \E c \in Conns :
        /\ ws[c] = "closed"
        /\ Len(inbox[c]) = 1
        /\ published # <<>>
        /\ inbox[c][1] # published[1].msg

\* the read model after the client has handled every message of its inbox
RECURSIVE Drain(_, _)
Drain(prev, msgs) ==
    IF msgs = <<>> THEN prev
    ELSE Drain(handleWebSocketMessage(prev, Head(msgs)), Tail(msgs))

\* the client is connected and its read model is the one a fetch of the
\* current store gives: it has loaded the list and missed no event
JustLoaded(c) ==
    /\ ws[c] = "open"
    /\ ~local[c].loading
    /\ fetching[c] = <<>>
    /\ inbox[c] = <<>>
    /\ \E s \in getAllTasks(tasks) : local[c].tasks = groupByDay(s)

\* the client's list of every day, once it has handled its inbox, is a
\* result of the server's listByDay(day): the same tasks in the same order
Converged(c) ==
    \A d \in DaySet :
        IdsOf(Drain(local[c].tasks, inbox[c])[d]) \in {IdsOf(s) : s \in getTasksByDay(tasks, d)}

\* C6: a connected client that has loaded the task list holds, after a task
\* mutation and once the published event is delivered to it, for each day the
\* same tasks in the same order as the server's listByDay(day).
C6_ClientConverges ==
    [][\A c \in Conns :
        (JustLoaded(c) /\ RequestStep /\ ws'[c] = "open") => Converged(c)']_vars

PutOk(r) == r.op = "PUT /api/tasks/:id" /\ r.status = 200

\* the keys the parameter type of updateTask admits:
\* Partial<Omit<Task, "id" | "created_at">>
UpdatableColumns == TaskColumns \ {"id", "created_at"}

\* C7: of two updateTask calls on the same task id that are in flight
\* together, the store applies one after the other: after the second commit
\* every field both calls supply holds the value of the second call, and
\* the stored updated_at is the time of the second call.  (A handler runs to
\* its end once the body is read, so the two commits are two successive
\* request steps.)
C7_LastWriterWins ==
    [][(/\ PutOk(resp) /\ RequestStep /\ PutOk(resp')
        /\ resp'.req.id = resp.req.id
        /\ DOMAIN resp.req.body \subseteq UpdatableColumns
        /\ DOMAIN resp'.req.body \subseteq UpdatableColumns
        /\ DOMAIN resp.req.body # {}
        /\ DOMAIN resp'.req.body # {})
       => \A r \in getTask(tasks', resp'.req.id) :
            /\ \A k \in DOMAIN resp.req.body \cap DOMAIN resp'.req.body :
                  r[k] = Bind(k, resp'.req.body[k])
            /\ r.updated_at = now]_vars

\* C8: a successful create stores one new row under an id that no existing
\* task has, with the supplied title, description (NULL when none is
\* supplied) and day, priority 1, completed false (the integer 0 of SQLite)
\* and created_at equal to updated_at; every other row is unchanged, and
\* getTask(id) right after returns that row.
C8_CreateStoresTask ==
    [][(RequestStep /\ resp'.op = "POST /api/tasks" /\ resp'.status = 200) =>
        LET b == resp'.req
            id == resp'.body.task.id
        IN /\ getTask(tasks, id) = {}
           /\ \E r \in tasks' :
                /\ tasks' = tasks \cup {r}
                /\ getTask(tasks', id) = {r}
                /\ r.title = b.title
                /\ r.description = (IF b.description = Undef THEN Null ELSE b.description)
                /\ r.day = b.day
                /\ r.priority = 1
                /\ r.completed = "0"
                /\ r.created_at = now
                /\ r.updated_at = r.created_at]_vars

\* a second task was created, at a later time than the first
C8_Witness ==
    /\ resp.op = "POST /api/tasks"
    /\ resp.status = 200
    /\ resp.body.task.id = 2
    /\ \E r \in tasks : r.id = 1
    /\ \E r \in tasks : r.id = 2 /\ r.created_at = 1 /\ r.updated_at = 1 /\ r.title = resp.req.title

\* C9: updateTask(id, fields) on an existing task changes only the supplied
\* fields and updated_at of that task; every other field of that task and
\* every other task is unchanged.
C9_UpdateFrame ==
    [][(RequestStep /\ resp'.op = "PUT /api/tasks/:id" /\ getTask(tasks, resp'.req.id) # {}) =>
        \A r \in tasks :
            IF r.id = resp'.req.id
            THEN \E r2 \in tasks' :
                    /\ r2.id = r.id
                    /\ \A k \in TaskColumns \ (DOMAIN resp'.req.body \cup {"updated_at"}) :
                          r2[k] = r[k]
            ELSE r \in tasks']_vars

\* C10: under every operation of the API a task keeps its id and its
\* created_at for as long as it is stored (also under a PUT whose body
\* holds id or created_at).
C10_IdAndCreatedAtImmutable ==
    [][\A r \in tasks :
        \/ \E r2 \in tasks' : r2.id = r.id /\ r2.created_at = r.created_at
        \/ /\ RequestStep /\ resp'.op = "DELETE /api/tasks/:id" /\ resp'.req.id = r.id
           /\ getTask(tasks', r.id) = {}]_vars

\* the step handles a request of the given operation
OpStep(op) == RequestStep /\ resp'.op = op

\* C11: every operation that mutates a task refreshes its updated_at: after a
\* successful updateTask on an existing id, whatever fields it supplies (none
\* included), the task's updated_at is the time of the call, and after a
\* successful reorder every listed task's updated_at is the time of the call.
C11_UpdatedAtRefreshed ==
    [][/\ (OpStep("PUT /api/tasks/:id") /\ resp'.status = 200) =>
            \A r \in getTask(tasks', resp'.req.id) : r.updated_at = now
       /\ (ReorderStep /\ resp'.status = 200) =>
            \A r \in tasks' : r.id \in Range(resp'.req.taskIds) => r.updated_at = now]_vars

\* C12: a delete of an existing task answers 200 and removes exactly that
\* row, every other row staying as it is (priorities included); a delete of
\* an id that is not stored, as the second delete of the same id is, answers
\* 404 and changes nothing.
C12_DeleteOnceThenNotFound ==
    [][OpStep("DELETE /api/tasks/:id") =>
        IF getTask(tasks, resp'.req.id) # {}
        THEN /\ resp'.status = 200
             /\ tasks' = tasks \ getTask(tasks, resp'.req.id)
             /\ getTask(tasks', resp'.req.id) = {}
        ELSE /\ resp'.status = 404
             /\ tasks' = tasks]_vars

\* the first task was created and deleted, and a second delete of its id
\* was answered with 404
C12_Witness ==
    /\ resp.op = "DELETE /api/tasks/:id"
    /\ resp.status = 404
    /\ resp.req.id = 1
    /\ nextId = 1
    /\ nreq = 3
    /\ IdsOfRows = {}

\* C13: an updateTask (PUT) on an id that is not stored, with a body whose
\* keys are columns of the table, is answered with 404 (not with an error)
\* and changes no row.
C13_UpdateAbsentNotFound ==
    [][(/\ OpStep("PUT /api/tasks/:id")
        /\ getTask(tasks, resp'.req.id) = {}
        /\ DOMAIN resp'.req.body \subseteq TaskColumns)
       => (resp'.status = 404 /\ tasks' = tasks)]_vars

\* C14: a POST /api/tasks whose title is missing or empty, or whose day is
\* missing, is answered with 400, stores no task and publishes no event.
C14_CreateRequiresTitleAndDay ==
    [][(/\ OpStep("POST /api/tasks")
        /\ (resp'.req.title \in {Undef, ""} \/ resp'.req.day = Undef))
       => /\ resp'.status = 400
          /\ tasks' = tasks
          /\ nextId' = nextId
          /\ published' = <<>>
          /\ inbox' = inbox]_vars

\* a create with an empty title and a valid day was refused while a
\* connection was subscribed; the store still holds just the earlier task
C14_Witness ==
    /\ resp.op = "POST /api/tasks"
    /\ resp.status = 400
    /\ resp.req.title = ""
    /\ resp.req.day \in DaySet
    /\ Cardinality(tasks) = 1
    /\ \E c \in Conns : subs[c] = Topics /\ Len(inbox[c]) = 1

\* C15: a create whose day is none of the seven weekday tokens is answered
\* with 400 and stores no task.
C15_CreateRejectsUnknownDay ==
    [][(OpStep("POST /api/tasks") /\ resp'.req.day \notin Range(AllDays))
       => (resp'.status = 400 /\ tasks' = tasks)]_vars

\* C16: an updateTask that would set title to the empty string is refused
\* (400) and changes no row, and no stored task has an empty title.
C16_TitleNeverEmpty ==
    [][/\ (/\ OpStep("PUT /api/tasks/:id")
           /\ "title" \in DOMAIN resp'.req.body
           /\ resp'.req.body.title = "")
          => (resp'.status = 400 /\ tasks' = tasks)
       /\ \A r \in tasks' : r.title # ""]_vars

\* C17: a reorder of a day whose list holds the id of a stored task of
\* another day is answered with 400 and changes the priority of no task.
C17_ReorderRejectsOtherDay ==
    [][(/\ ReorderStep
        /\ Truthy(resp'.req.day)
        /\ resp'.req.taskIds # NotArray
        /\ \E r \in tasks : r.id \in Range(resp'.req.taskIds) /\ r.day # resp'.req.day)
       => /\ resp'.status = 400
          /\ \A r \in tasks : \E r2 \in tasks' : r2.id = r.id /\ r2.priority = r.priority]_vars

\* C18: a successful delete of a task leaves every session row in the store
\* and sets the task_id of the sessions that referenced the task to null,
\* so that after it no session refers to the deleted id.
C18_DeleteClearsSessionTask ==
    [][(OpStep("DELETE /api/tasks/:id") /\ resp'.status = 200) =>
        /\ sessions' = {IF s.task_id = <<resp'.req.id>> THEN [s EXCEPT !.task_id = <<>>]
                        ELSE s : s \in sessions}
        /\ \A s \in sessions' : s.task_id # <<resp'.req.id>>]_vars

\* C19: a session is created with completed_at null; a completed_at that is
\* set never changes again under any step (a second complete call included),
\* and a complete call changes no other field of any session.
C19_CompletedAtSetOnce ==
    [][/\ \A s \in sessions' : getSession(sessions, s.id) = {} => s.completed_at = <<>>
       /\ \A s \in sessions :
            s.completed_at # <<>> =>
                \E s2 \in sessions' : s2.id = s.id /\ s2.completed_at = s.completed_at
       /\ OpStep("POST /api/pomodoro/sessions/:id/complete") =>
            \A s \in sessions :
                \E s2 \in sessions' : [s2 EXCEPT !.completed_at = <<>>] = [s EXCEPT !.completed_at = <<>>]]_vars

C21_EventsIdempotent ==
    \A c \in Conns :
        inbox[c] # <<>> =>
            LET once == handleWebSocketMessage(local[c].tasks, Head(inbox[c]))
            IN handleWebSocketMessage(once, Head(inbox[c])) = once

\* the client handles the message at the head of its inbox
MessageStep(c) == inbox[c] # <<>> /\ inbox'[c] = Tail(inbox[c]) /\ local'[c] # local[c]

\* the response of a full fetch arrives at the client
FetchDoneStep(c) == fetching[c] # <<>> /\ fetching'[c] = <<>>

\* no task id occurs twice in the read model
NoDuplicateIds(byDay) ==
    \A d1, d2 \in DOMAIN byDay : \A i \in DOMAIN byDay[d1], j \in DOMAIN byDay[d2] :
        byDay[d1][i].id = byDay[d2][j].id => (d1 = d2 /\ i = j)

\* C27: a client's read model without duplicate ids has none after a full
\* fetch arrives and none after a task_created event is handled, in whatever
\* order fetches and events reach the client.
C27_NoDuplicateEntries ==
    [][\A c \in Conns :
        (/\ NoDuplicateIds(local[c].tasks)
         /\ \/ FetchDoneStep(c)
            \/ MessageStep(c) /\ Head(inbox[c]).type = "task_created")
        => NoDuplicateIds(local'[c].tasks)]_vars

\* C28: handling a tasks_reordered event removes no task from the client's
\* list of that day: every task of the list before is in the list after.
C28_ReorderKeepsTasks ==
    [][\A c \in Conns :
        (MessageStep(c) /\ Head(inbox[c]).type = "tasks_reordered") =>
            LET d == Head(inbox[c]).day
            IN Range(IdsOf(local[c].tasks[d])) \subseteq Range(IdsOf(local'[c].tasks[d]))]_vars

\* C26: an event of the tasks topic is published in the very step that
\* commits its mutation (no other request's write or publish comes between
\* the two), and it is queued behind every event already sent to a
\* subscriber: each subscriber gets the events in commit order.
C26_PublishInCommitOrder ==
    [][/\ (RequestStep /\ published' # <<>> /\ published'[1].topic = "tasks") =>
            LET msg == published'[1].msg IN
            /\ \A c \in Conns : "tasks" \in subs[c] => inbox'[c] = Append(inbox[c], msg)
            /\ CASE msg.type = "task_created" ->
                      getTask(tasks, msg.task.id) = {} /\ getTask(tasks', msg.task.id) # {}
                 [] msg.type = "task_updated" ->
                      /\ tasks' = updateTask(tasks, resp'.req.id, resp'.req.body, now)
                      /\ getTask(tasks', resp'.req.id) = {msg.task}
                 [] msg.type = "task_deleted" ->
                      getTask(tasks, msg.id) # {} /\ tasks' = deleteTask(tasks, msg.id)
                 [] msg.type = "tasks_reordered" ->
                      tasks' = reorderWrites(tasks, msg.taskIds, Len(msg.taskIds))
       /\ (RequestStep /\ resp'.status = 200 /\ tasks' # tasks) =>
            (published' # <<>> /\ published'[1].topic = "tasks")
       /\ ~RequestStep => (published' = published /\ inbox' = inbox /\ tasks' = tasks)]_vars

\* a subscriber holds the events of a create and of a later update of the
\* same task, in that order
C26_Witness ==
    \E c \in Conns :
        /\ Len(inbox[c]) = 2
        /\ inbox[c][1].type = "task_created"
        /\ inbox[c][2].type = "task_updated"
        /\ inbox[c][2].task.id = inbox[c][1].task.id
        /\ inbox[c][2].task.title # inbox[c][1].task.title

\* the j-th waiting completeSession call goes on after its fetch
CompletionStep(j) ==
    /\ j \in DOMAIN completes
    /\ Len(completes') = Len(completes) - 1
    /\ completes' = RemoveAt(completes, j)

\* C22: when a session has run out and its completion goes on: for a work
\* session the counter becomes the counter of the session plus one, and the
\* next type is long_break when the new counter is a multiple of 4 and
\* short_break otherwise (so short_break for the counters 1 to 3 and
\* long_break for 4); for a break the counter stays and the next type is
\* work.  Until its first completion the counter and type of the session
\* are those of the timer.
C22_NextTypeAndCounter ==
    [][\A j \in 1..MaxCompletes : CompletionStep(j) =>
        LET st == completes[j].state IN
        /\ st.currentType = "work" =>
            /\ timer'.sessionCount = st.sessionCount + 1
            /\ timer'.currentType =
                  (IF timer'.sessionCount % 4 = 0 THEN "long_break" ELSE "short_break")
            /\ timer'.sessionCount \in 1..3 => timer'.currentType = "short_break"
            /\ timer'.sessionCount = 4 => timer'.currentType = "long_break"
        /\ st.currentType # "work" =>
            /\ timer'.sessionCount = st.sessionCount
            /\ timer'.currentType = "work"
        /\ timer.currentSessionId = st.currentSessionId =>
            /\ st.sessionCount = timer.sessionCount
            /\ st.currentType = timer.currentType]_vars

\* the fourth work session has completed and long_break is selected
C22_Witness ==
    /\ timer.sessionCount = 4
    /\ timer.currentType = "long_break"
    /\ timer.timeLeft = TIMER_DURATIONS["long_break"]
    /\ ~timer.isRunning
    /\ resp.op = "POST /api/pomodoro/sessions/:id/complete"
    /\ Cardinality({x \in sessions : x.type = "work" /\ x.completed_at # <<>>}) = 4

\* C23: the step in which a completion goes on leaves the timer idle, with
\* another type selected than the one of the session, the remaining time of
\* that type's duration and no current session, and it sends no request and
\* stores no row; a session row is stored only when the server handles the
\* request of a startSession call, and such a call is made only by a click
\* on Start while the timer does not run.
C23_IdleAfterCompletion ==
    [][/\ \A j \in 1..MaxCompletes : CompletionStep(j) =>
            /\ ~timer'.isRunning
            /\ timer'.currentType # completes[j].state.currentType
            /\ timer'.timeLeft = TIMER_DURATIONS[timer'.currentType]
            /\ timer'.currentSessionId = <<>>
            /\ sessions' = sessions
            /\ starts' = starts
       /\ {x.id : x \in sessions'} # {x.id : x \in sessions} =>
            \E i \in DOMAIN starts :
                /\ starts[i].stage = "sent"
                /\ starts'[i].stage = "answered"
                /\ sessions' = sessions \cup getSession(sessions', starts'[i].id)
       /\ Len(starts') > Len(starts) => (~timer.isRunning /\ timer' = timer)]_vars

\* the first work session has completed: the timer is idle on a short break
\* of five minutes, one session row is stored and no call is waiting
C23_Witness ==
    /\ timer = [timeLeft |-> 5 * 60, isRunning |-> FALSE, currentType |-> "short_break",
                sessionCount |-> 1, currentSessionId |-> <<>>]
    /\ Cardinality(sessions) = 1
    /\ \A x \in sessions : x.completed_at # <<>>
    /\ starts = <<>>
    /\ completes = <<>>

\* the timer is paused within a session
Paused == ~timer.isRunning /\ timer.currentSessionId # <<>> /\ timer.timeLeft > 0

\* C24: while the timer is paused within a session no session row is
\* stored, and the step that makes it run again keeps the session id and the
\* remaining time.
C24_ResumeKeepsSession ==
    [][Paused =>
        /\ Cardinality(sessions') = Cardinality(sessions)
        /\ timer'.isRunning =>
            /\ timer'.currentSessionId = timer.currentSessionId
            /\ timer'.timeLeft = timer.timeLeft]_vars

\* C25: when a startSession call goes on after a fetch that threw, or after
\* a response with an error status, the timer runs.
C25_StartsLocallyOnFailure ==
    [][\A i \in 1..MaxStarts :
        (/\ i \in DOMAIN starts
         /\ Len(starts') = Len(starts) - 1
         /\ starts' = RemoveAt(starts, i)
         /\ (starts[i].stage = "sent" \/ starts[i].status # 200))
        => timer'.isRunning]_vars

\* C29: whenever the timer runs with no time left, it is later idle with a
\* type selected at its full duration and no current session.
C29_ZeroLeadsToIdle ==
    (timer.isRunning /\ timer.timeLeft = 0)
        ~> (/\ ~timer.isRunning
            /\ timer.timeLeft = TIMER_DURATIONS[timer.currentType]
            /\ timer.currentSessionId = <<>>)

\* C30: a completion request is sent only for a session for which none is
\* waiting and whose row is not completed yet, and a session_completed
\* event is published only for a session whose row was not completed
\* before.
C30_OneCompletionPerSession ==
    [][/\ Len(completes') > Len(completes) =>
            LET id == completes'[Len(completes')].state.currentSessionId IN
            /\ \A j \in DOMAIN completes : completes[j].state.currentSessionId # id
            /\ \A x \in getSession(sessions, id[1]) : x.completed_at = <<>>
       /\ (OpStep("POST /api/pomodoro/sessions/:id/complete") /\ published' # <<>>) =>
            \A x \in getSession(sessions, resp'.req.id) : x.completed_at = <<>>]_vars

====
